---- MODULE Spec2Model ----
(***************************************************************************)
(* A model of the MapReduce integer sort: the master (RunMaster: interval  *)
(* planning, role assignment, chunk delivery) and the worker RPC handlers  *)
(* (AssignRole, SendChunk, SendMappedData, NotifyMapperDone,               *)
(* finalizeReduce).                                                        *)
(***************************************************************************)
EXTENDS Integers, Sequences, FiniteSets, TLC

(***************************************************************************)
(* Bounds of the model.                                                    *)
(***************************************************************************)
\* int64 is modelled as a two's complement integer of IntBits bits.
IntBits == 5
\* Largest number of values in the input file.
MaxLen == 2
\* Largest number of worker addresses in config.yaml.
MaxWorkers == 4
\* Largest number of transport failures injected in one run.
MaxFailures == 1

(***************************************************************************)
(* Fixed-width signed integer arithmetic (Go int64).                       *)
(***************************************************************************)
MinInt == -(2 ^ (IntBits - 1))

MaxInt == (2 ^ (IntBits - 1)) - 1

\* Two's complement wrap-around of an arithmetic result.
Wrap(x) == ((x - MinInt) % (2 ^ IntBits)) + MinInt

Abs(x) == IF x < 0 THEN -x ELSE x

\* Go's integer division truncates toward zero; b # 0.
TruncDiv(a, b) ==
    LET q == Abs(a) \div Abs(b)
    IN  Wrap(IF (a < 0) = (b < 0) THEN q ELSE -q)

\* The input values the model draws from: the extremes of the integer
\* range and the values around zero.
Values == {MinInt, -1, 0, 1, MaxInt}

Nodes == 1 .. MaxWorkers

NoAddr == 0

SeqsUpTo(S, n) == UNION {[1 .. k -> S] : k \in 0 .. n}

SetMin(S) == CHOOSE x \in S : \A y \in S : x <= y

SetMax(S) == CHOOSE x \in S : \A y \in S : x >= y

Range(s) == {s[i] : i \in DOMAIN s}

(***************************************************************************)
(* RunMaster: exact-range interval planner.                                *)
(***************************************************************************)
\* minVal / maxVal loops over allValues.
MinVal(vals) == SetMin(Range(vals))

MaxVal(vals) == SetMax(Range(vals))

\* Variant: the range is divided rounding up.
RangeSizeCeil(vals, R) ==
    LET rs == TruncDiv(Wrap(Wrap(MaxVal(vals) - MinVal(vals)) + (R - 1)), R)
    IN  IF rs = 0 THEN 1 ELSE rs

\* rangeSize := (maxVal - minVal) / int64(cfg.Reducers); 0 becomes 1.
RangeSize(vals, R) ==
    LET rs == TruncDiv(Wrap(MaxVal(vals) - MinVal(vals)), R)
    IN  IF rs = 0 THEN 1 ELSE rs

\* The end of the last interval.
LastEnd(vals) == Wrap(MaxVal(vals) + 1)

\* intervals[i] for i = 0 .. R-1, stored at index i+1.
ExactIntervals(vals, R) ==
    [k \in 1 .. R |->
        LET start == Wrap(MinVal(vals) + Wrap((k - 1) * RangeSize(vals, R)))
            end   == IF k = R THEN LastEnd(vals)
                              ELSE Wrap(start + RangeSize(vals, R))
        IN  <<start, end>>]

\* reducerInfos: one ReducerInfo per reducer address, index-aligned with
\* the intervals. Reducer addresses are the workers after the mappers.
ReducerInfos(ivs, M) ==
    [k \in 1 .. Len(ivs) |->
        [Address |-> M + k, IntervalStart |-> ivs[k][1], IntervalEnd |-> ivs[k][2]]]

(***************************************************************************)
(* RunMaster: remainder-distributing chunk split.                          *)
(***************************************************************************)
SubSeqOrEmpty(s, from, to) == IF from > to THEN <<>> ELSE SubSeq(s, from, to)

\* Variant: every chunk has the base size, the remainder is left out.
RemainderChunkBaseOnly(vals, m, i) ==
    SubSeqOrEmpty(vals, i * (Len(vals) \div m) + 1, (i + 1) * (Len(vals) \div m))

\* chunk of mapper i (0-indexed), m >= 1: allValues[start:end].
RemainderChunk(vals, m, i) ==
    LET base   == Len(vals) \div m
        rem    == Len(vals) % m
        start  == i * base + (IF i < rem THEN i ELSE rem)
        end0   == start + base + (IF i < rem THEN 1 ELSE 0)
        end    == IF end0 > Len(vals) THEN Len(vals) ELSE end0
    IN  SubSeqOrEmpty(vals, start + 1, end)

\* All the chunks, in mapper order.
RemainderChunks(vals, m) == [k \in 1 .. m |-> RemainderChunk(vals, m, k - 1)]

(***************************************************************************)
(* RunMaster, sampled-quantile variant: the interval planner.              *)
(***************************************************************************)
\* sampleSize := len(allValues) / SampleDivisor; 0 becomes 1.
SampleDivisor == 100

SampleSize(n) == IF n \div SampleDivisor = 0 THEN 1 ELSE n \div SampleDivisor

\* The samples rand.Intn can draw: any values of the input, with
\* replacement; then sorted.
Samples(vals) == [1 .. SampleSize(Len(vals)) -> Range(vals)]

\* The end of the last interval: int64(math.MaxInt64).
SampledLastEnd == MaxInt

\* intervals[i] for i = 0 .. R-1, stored at index i+1; sample is sorted.
SampledIntervals(sample, R) ==
    LET intervalLength == Len(sample) \div R
    IN  [k \in 1 .. R |->
            <<IF k = 1 THEN MinInt ELSE sample[(k - 1) * intervalLength + 1],
              IF k # R THEN sample[k * intervalLength + 1] ELSE SampledLastEnd>>]

(***************************************************************************)
(* RunMaster, ceiling-division variant: the chunk split.                   *)
(***************************************************************************)
\* chunkSize := (len(allValues) + m - 1) / m
CeilChunkSize(n, m) == (n + m - 1) \div m

\* allValues[start:end] panics when start > end.
CeilChunkPanics(vals, m, i) ==
    LET start == i * CeilChunkSize(Len(vals), m)
    IN  start > Len(vals)

\* chunk of mapper i (0-indexed), m >= 1.
CeilChunk(vals, m, i) ==
    LET start == i * CeilChunkSize(Len(vals), m)
        end0  == start + CeilChunkSize(Len(vals), m)
        end   == IF end0 > Len(vals) THEN Len(vals) ELSE end0
    IN  SubSeqOrEmpty(vals, start + 1, end)

(***************************************************************************)
(* Worker: lookup of the reducer of a value.                               *)
(***************************************************************************)
\* Variant: the end of an interval belongs to the interval.
findReducerClosed(rs, val) ==
    LET hits == {k \in DOMAIN rs :
                    val >= rs[k].IntervalStart /\ val <= rs[k].IntervalEnd}
    IN  IF hits = {} THEN NoAddr ELSE rs[SetMin(hits)].Address

\* Linear scan, first interval with start <= val < end; NoAddr models "".
findReducer(rs, val) ==
    LET hits == {k \in DOMAIN rs :
                    val >= rs[k].IntervalStart /\ val < rs[k].IntervalEnd}
    IN  IF hits = {} THEN NoAddr ELSE rs[SetMin(hits)].Address

\* sort.Slice(receivedData, less) on integers.
SortAscending(s) == SortSeq(s, LAMBDA a, b : a < b)

(***************************************************************************)
(* State.                                                                  *)
(***************************************************************************)
VARIABLES
    \* RunMaster
    cpc,            \* position of the master in RunMaster
    cfgWorkers,     \* len(cfg.Workers); the addresses are 1 .. cfgWorkers
    cfgMappers,     \* cfg.Mappers
    cfgReducers,    \* cfg.Reducers
    allValues,      \* the values read from the input file
    intervals,      \* intervals[i] = <<start, end>>
    ci,             \* index of the running loop of RunMaster
    sampledValues,  \* the sorted sample of the sampled-quantile planner
    chunks,         \* the chunks of the mappers, in mapper order
    failures,       \* transport failures injected so far
    prevJob,        \* how the job before this one on the same workers ended
    \* WorkerServer fields, one per node
    isMapper, reducers, totalMappers, intervalStart, intervalEnd,
    mu,             \* holder of ws.mu (a handler), or 0
    receivedData, mappersToWait,
    outputFile,     \* the reducer's output file
    \* SendChunk handler of each node
    spc,            \* position in SendChunk
    values,         \* req.Values
    vi,             \* index of the value loop
    ri,             \* index of the notify loop
    \* SendMappedData / NotifyMapperDone calls in flight
    hpc,            \* position of the handler
    htarget,        \* the node the call was sent to
    hvalues,        \* req.Values of a SendMappedData call
    waiting,        \* the local variable waiting of NotifyMapperDone
    \* history
    assigned,       \* the node has acknowledged an AssignRole
    finalizeRuns,   \* times finalizeReduce has sorted and written
    signals,        \* completion signals the node has counted
    signalsFrom,    \* the calls whose completion signal the node has counted
    notified,       \* addresses this SendChunk run has sent NotifyMapperDone to
    sentTo          \* addresses this SendChunk run has sent values to

planVars == <<sampledValues, chunks>>

masterVars == <<cpc, cfgWorkers, cfgMappers, cfgReducers, allValues, intervals, ci,
                planVars, prevJob>>

roleVars == <<isMapper, reducers, totalMappers, intervalStart, intervalEnd, assigned>>

reducerVars == <<mu, receivedData, mappersToWait, outputFile, finalizeRuns, signals,
                 signalsFrom>>

mapperVars == <<spc, values, vi, ri, notified, sentTo>>

handlerVars == <<hpc, htarget, hvalues, waiting>>

vars == <<masterVars, failures, roleVars, reducerVars, mapperVars, handlerVars>>

NoFile == [exists |-> FALSE, lines |-> <<>>]

\* The fields of a freshly started worker (&worker.WorkerServer{}) and no
\* call in flight.
WorkersInit ==
    /\ isMapper = [w \in Nodes |-> FALSE]
    /\ reducers = [w \in Nodes |-> <<>>]
    /\ totalMappers = [w \in Nodes |-> 0]
    /\ intervalStart = [w \in Nodes |-> 0]
    /\ intervalEnd = [w \in Nodes |-> 0]
    /\ mu = [w \in Nodes |-> 0]
    /\ receivedData = [w \in Nodes |-> <<>>]
    /\ mappersToWait = [w \in Nodes |-> 0]
    /\ outputFile = [w \in Nodes |-> NoFile]
    /\ spc = [w \in Nodes |-> "idle"]
    /\ values = [w \in Nodes |-> <<>>]
    /\ vi = [w \in Nodes |-> 1]
    /\ ri = [w \in Nodes |-> 1]
    /\ hpc = [h \in Nodes |-> "idle"]
    /\ htarget = [h \in Nodes |-> NoAddr]
    /\ hvalues = [h \in Nodes |-> <<>>]
    /\ waiting = [h \in Nodes |-> 0]
    /\ assigned = [w \in Nodes |-> FALSE]
    /\ finalizeRuns = [w \in Nodes |-> 0]
    /\ signals = [w \in Nodes |-> 0]
    /\ signalsFrom = [w \in Nodes |-> {}]
    /\ notified = [w \in Nodes |-> <<>>]
    /\ sentTo = [w \in Nodes |-> {}]

\* An input of ten distinct values in no order, for two mappers and two
\* reducers.
ScenarioInput == <<10, 3, 5, 1, 2, 9, 8, 7, 4, 6>>

\* A master started on a configuration and an input file, all workers
\* freshly started.
Init ==
    /\ cpc = "start"
    /\ cfgWorkers \in 0 .. MaxWorkers
    /\ cfgMappers \in 0 .. MaxWorkers
    /\ cfgReducers = 0
    /\ allValues \in SeqsUpTo(Values, MaxLen) \cup {ScenarioInput}
    /\ intervals = <<>>
    /\ ci = 1
    /\ sampledValues = <<>>
    /\ chunks = <<>>
    /\ failures = 0
    /\ prevJob = "none"
    /\ WorkersInit

(***************************************************************************)
(* Worker: AssignRole.                                                     *)
(***************************************************************************)
\* Variant: the countdown starts one short.
CountdownTargetOffByOne(total) == total - 1

\* The countdown a reducer starts from: ws.mappersToWait = ws.totalMappers.
CountdownTarget(total) == total

\* Variant: a node keeps the table of its first assignment as a mapper.
TableAfterAssignFirstOnly(w, req) ==
    IF req.IsMapper /\ reducers[w] = <<>> THEN req.Reducers ELSE reducers[w]

\* if ws.isMapper { ws.reducers = req.Reducers }
TableAfterAssign(w, req) == IF req.IsMapper THEN req.Reducers ELSE reducers[w]

AssignRole(w, req) ==
    /\ isMapper' = [isMapper EXCEPT ![w] = req.IsMapper]
    /\ totalMappers' = [totalMappers EXCEPT ![w] = req.TotalMappers]
    /\ intervalStart' = [intervalStart EXCEPT ![w] = req.IntervalStart]
    /\ intervalEnd' = [intervalEnd EXCEPT ![w] = req.IntervalEnd]
    /\ reducers' = [reducers EXCEPT ![w] = TableAfterAssign(w, req)]
    /\ mappersToWait' = IF ~req.IsMapper
                          THEN [mappersToWait EXCEPT
                                   ![w] = CountdownTarget(req.TotalMappers)]
                          ELSE mappersToWait
    /\ assigned' = [assigned EXCEPT ![w] = TRUE]

(***************************************************************************)
(* RunMaster.                                                              *)
(***************************************************************************)
\* Variant: the reducer count is used before the input is looked at.
PlanOutcomeCountFirst(vals, R) ==
    IF R <= 0 THEN "panic"
    ELSE IF Len(vals) = 0 THEN "fatal"
    ELSE "ok"

\* What the planning part of RunMaster ends in: "fatal" for log.Fatalf on
\* an empty input, "panic" for a run-time panic (division by zero for 0
\* reducers, make with a negative length for fewer), else "ok".
PlanOutcome(vals, R) ==
    IF Len(vals) = 0 THEN "fatal"
    ELSE IF R <= 0 THEN "panic"
    ELSE "ok"

\* Variant: the chunks are split and delivered right after the mapper role
\* assignments.
PhaseAfterAssignMappersSplit == "split"

\* The loop RunMaster runs after the mapper role assignments.
PhaseAfterAssignMappers == "assignReducers"

PhaseAfterPlan(M) == IF M >= 1 THEN "assignMappers" ELSE PhaseAfterAssignMappers

LoadAndPlan ==
    /\ cpc = "start"
    /\ cfgReducers' = cfgWorkers - cfgMappers
    /\ LET out == PlanOutcome(allValues, cfgWorkers - cfgMappers)
       IN  IF out = "ok"
             THEN /\ intervals' = ExactIntervals(allValues, cfgWorkers - cfgMappers)
                  /\ cpc' = PhaseAfterPlan(cfgMappers)
             ELSE /\ intervals' = intervals
                  /\ cpc' = out
    /\ UNCHANGED <<prevJob, planVars, cfgWorkers, cfgMappers, allValues, ci, failures, roleVars,
                   reducerVars, mapperVars, handlerVars>>

\* Variant: the master tries the failed call again.
PhaseAfterFailedCallRetry(phase) == phase

\* A failed dial, AssignRole or SendChunk ends the master: log.Fatalf.
PhaseAfterFailedCall(phase) == "fatal"

\* assignRole(client, true, reducerInfos, 0, 0, 0)
MapperRequest ==
    [IsMapper |-> TRUE, Reducers |-> ReducerInfos(intervals, cfgMappers),
     TotalMappers |-> 0, IntervalStart |-> 0, IntervalEnd |-> 0]

\* Variant: the master passes the reducer count as the number of mappers.
ReducerRequestReducerCount(i) ==
    [IsMapper |-> FALSE, Reducers |-> <<>>, TotalMappers |-> cfgReducers,
     IntervalStart |-> intervals[i][1], IntervalEnd |-> intervals[i][2]]

\* assignRole(client, false, nil, int32(cfg.Mappers), interval[0], interval[1])
ReducerRequest(i) ==
    [IsMapper |-> FALSE, Reducers |-> <<>>, TotalMappers |-> cfgMappers,
     IntervalStart |-> intervals[i][1], IntervalEnd |-> intervals[i][2]]

\* assignMapper(addr, reducerInfos) for the ci-th mapper address.
AssignMapperOk ==
    /\ cpc = "assignMappers"
    /\ ci <= cfgMappers
    /\ AssignRole(ci, MapperRequest)
    /\ IF ci = cfgMappers
         THEN cpc' = PhaseAfterAssignMappers /\ ci' = 1
         ELSE cpc' = cpc /\ ci' = ci + 1
    /\ UNCHANGED <<prevJob, planVars, cfgWorkers, cfgMappers, cfgReducers, allValues, intervals,
                   failures, mapperVars, handlerVars>>
    /\ UNCHANGED <<mu, receivedData, outputFile, finalizeRuns, signals, signalsFrom>>

\* The dial or the AssignRole call fails: log.Fatalf.
AssignMapperFail ==
    /\ cpc = "assignMappers"
    /\ ci <= cfgMappers
    /\ failures < MaxFailures
    /\ failures' = failures + 1
    /\ cpc' = PhaseAfterFailedCall(cpc)
    /\ UNCHANGED <<prevJob, planVars, cfgWorkers, cfgMappers, cfgReducers, allValues, intervals, ci,
                   roleVars, reducerVars, mapperVars, handlerVars>>

\* assignReducer(addr, cfg, intervals[i]) for the ci-th reducer address.
AssignReducerOk ==
    /\ cpc = "assignReducers"
    /\ ci <= cfgReducers
    /\ AssignRole(cfgMappers + ci, ReducerRequest(ci))
    /\ IF ci = cfgReducers
         THEN cpc' = "split" /\ ci' = 1
         ELSE cpc' = cpc /\ ci' = ci + 1
    /\ UNCHANGED <<prevJob, planVars, cfgWorkers, cfgMappers, cfgReducers, allValues, intervals,
                   failures, mapperVars, handlerVars>>
    /\ UNCHANGED <<mu, receivedData, outputFile, finalizeRuns, signals, signalsFrom>>

AssignReducerFail ==
    /\ cpc = "assignReducers"
    /\ ci <= cfgReducers
    /\ failures < MaxFailures
    /\ failures' = failures + 1
    /\ cpc' = PhaseAfterFailedCall(cpc)
    /\ UNCHANGED <<prevJob, planVars, cfgWorkers, cfgMappers, cfgReducers, allValues, intervals, ci,
                   roleVars, reducerVars, mapperVars, handlerVars>>

\* baseChunkSize := len(allValues) / m panics for m = 0.
SplitInput ==
    /\ cpc = "split"
    /\ cpc' = IF cfgMappers = 0 THEN "panic" ELSE "sendChunks"
    /\ UNCHANGED <<prevJob, planVars, cfgWorkers, cfgMappers, cfgReducers, allValues, intervals, ci,
                   failures, roleVars, reducerVars, mapperVars, handlerVars>>

\* sendChunk(client, chunk) for the ci-th mapper: the SendChunk handler of
\* that node starts, and the master waits for its response.
DeliverChunk ==
    /\ cpc = "sendChunks"
    /\ ci <= cfgMappers
    /\ spc[ci] = "idle"
    /\ spc' = [spc EXCEPT ![ci] = "enter"]
    /\ values' = [values EXCEPT ![ci] = RemainderChunk(allValues, cfgMappers, ci - 1)]
    /\ cpc' = "awaitChunk"
    /\ UNCHANGED <<prevJob, planVars, cfgWorkers, cfgMappers, cfgReducers, allValues, intervals, ci,
                   failures, roleVars, reducerVars, vi, ri, notified, sentTo,
                   handlerVars>>

DeliverChunkFail ==
    /\ cpc = "sendChunks"
    /\ ci <= cfgMappers
    /\ failures < MaxFailures
    /\ failures' = failures + 1
    /\ cpc' = PhaseAfterFailedCall(cpc)
    /\ UNCHANGED <<prevJob, planVars, cfgWorkers, cfgMappers, cfgReducers, allValues, intervals, ci,
                   roleVars, reducerVars, mapperVars, handlerVars>>

\* Variant: the master sends the chunk without waiting for the response.
ChunkResponseNotAwaited(m) == spc[m] # "idle"

\* client.SendChunk is a blocking unary call: sendChunk returns when the
\* SendChunk handler of mapper m has returned.
ChunkResponseArrived(m) == spc[m] = "returned"

\* The SendChunk response arrives: next mapper, or the master is done.
ChunkAcked ==
    /\ cpc = "awaitChunk"
    /\ ChunkResponseArrived(ci)
    /\ spc' = [spc EXCEPT ![ci] = IF @ = "returned" THEN "idle" ELSE @]
    /\ IF ci = cfgMappers
         THEN cpc' = "done" /\ ci' = ci
         ELSE cpc' = "sendChunks" /\ ci' = ci + 1
    /\ UNCHANGED <<prevJob, planVars, cfgWorkers, cfgMappers, cfgReducers, allValues, intervals,
                   failures, roleVars, reducerVars, values, vi, ri, notified,
                   sentTo, handlerVars>>

(***************************************************************************)
(* Worker: SendChunk (the mapper's shuffle run).  The calls a node makes   *)
(* to reducers run in the call slot with the node's own number.            *)
(***************************************************************************)
\* if !ws.isMapper { return "Not a mapper" }
SendChunkEnter(w) ==
    /\ spc[w] = "enter"
    /\ spc' = [spc EXCEPT ![w] = IF isMapper[w] THEN "route" ELSE "returned"]
    /\ vi' = [vi EXCEPT ![w] = 1]
    /\ ri' = [ri EXCEPT ![w] = 1]
    /\ notified' = [notified EXCEPT ![w] = <<>>]
    /\ sentTo' = [sentTo EXCEPT ![w] = {}]
    /\ UNCHANGED <<masterVars, failures, roleVars, reducerVars, values, handlerVars>>

\* Variant: a value without reducer ends the value loop.
PhaseAfterUnmatchedValueBreak == "notify"

\* After a value without reducer (log.Printf, continue) the value loop
\* goes on.
PhaseAfterUnmatchedValue == "route"

\* target == "": the value is logged and skipped.
RouteSkip(w) ==
    /\ spc[w] = "route"
    /\ vi[w] <= Len(values[w])
    /\ findReducer(reducers[w], values[w][vi[w]]) = NoAddr
    /\ vi' = [vi EXCEPT ![w] = vi[w] + 1]
    /\ spc' = [spc EXCEPT ![w] = PhaseAfterUnmatchedValue]
    /\ UNCHANGED <<masterVars, failures, roleVars, reducerVars, values, ri,
                   notified, sentTo, handlerVars>>

\* ws.sendToReducer(target, []int64{v}): the SendMappedData call starts.
RouteSend(w) ==
    /\ spc[w] = "route"
    /\ vi[w] <= Len(values[w])
    /\ findReducer(reducers[w], values[w][vi[w]]) # NoAddr
    /\ hpc[w] = "idle"
    /\ hpc' = [hpc EXCEPT ![w] = "smd"]
    /\ htarget' = [htarget EXCEPT ![w] = findReducer(reducers[w], values[w][vi[w]])]
    /\ hvalues' = [hvalues EXCEPT ![w] = <<values[w][vi[w]]>>]
    /\ sentTo' = [sentTo EXCEPT
                    ![w] = @ \cup {findReducer(reducers[w], values[w][vi[w]])}]
    /\ spc' = [spc EXCEPT ![w] = "awaitData"]
    /\ UNCHANGED <<masterVars, failures, roleVars, reducerVars, values, vi, ri,
                   notified, waiting>>

\* Variant: a failed forward ends the SendChunk run.
PhaseAfterFailedForwardAbort == "returned"

\* After a failed forward (log.Printf) the value loop goes on.
PhaseAfterFailedForward == "route"

\* sendToReducer returns an error: logged, the loop goes on.
RouteSendFail(w) ==
    /\ spc[w] = "route"
    /\ vi[w] <= Len(values[w])
    /\ findReducer(reducers[w], values[w][vi[w]]) # NoAddr
    /\ failures < MaxFailures
    /\ failures' = failures + 1
    /\ vi' = [vi EXCEPT ![w] = vi[w] + 1]
    /\ spc' = [spc EXCEPT ![w] = PhaseAfterFailedForward]
    /\ UNCHANGED <<masterVars, roleVars, reducerVars, values, ri, notified,
                   sentTo, handlerVars>>

\* The SendMappedData response arrives: next value.
RouteReturn(w) ==
    /\ spc[w] = "awaitData"
    /\ hpc[w] = "returned"
    /\ hpc' = [hpc EXCEPT ![w] = "idle"]
    /\ spc' = [spc EXCEPT ![w] = "route"]
    /\ vi' = [vi EXCEPT ![w] = vi[w] + 1]
    /\ UNCHANGED <<masterVars, failures, roleVars, reducerVars, values, ri,
                   notified, sentTo, htarget, hvalues, waiting>>

\* Variant: only the reducers this run has sent a value to are notified.
NotifyTargetsSentOnly(w) ==
    SelectSeq([k \in DOMAIN reducers[w] |-> reducers[w][k].Address],
              LAMBDA a : a \in sentTo[w])

\* The addresses of the notify loop: for _, r := range ws.reducers.
NotifyTargets(w) == [k \in DOMAIN reducers[w] |-> reducers[w][k].Address]

\* Variant: the loop ends before the last value.
ValueLoopDoneEarly(w) == vi[w] >= Len(values[w])

\* for _, v := range values: the loop ends after the last value.
ValueLoopDone(w) == vi[w] > Len(values[w])

\* The value loop is exhausted: on to the notify loop.
RouteDone(w) ==
    /\ spc[w] = "route"
    /\ ValueLoopDone(w)
    /\ spc' = [spc EXCEPT ![w] = "notify"]
    /\ UNCHANGED <<masterVars, failures, roleVars, reducerVars, values, vi, ri,
                   notified, sentTo, handlerVars>>

\* ws.notifyMapperDone(r.Address): the NotifyMapperDone call starts.
NotifySend(w) ==
    /\ spc[w] = "notify"
    /\ ri[w] <= Len(NotifyTargets(w))
    /\ hpc[w] = "idle"
    /\ hpc' = [hpc EXCEPT ![w] = "nmd"]
    /\ htarget' = [htarget EXCEPT ![w] = NotifyTargets(w)[ri[w]]]
    /\ notified' = [notified EXCEPT ![w] = Append(@, NotifyTargets(w)[ri[w]])]
    /\ spc' = [spc EXCEPT ![w] = "awaitNotify"]
    /\ UNCHANGED <<masterVars, failures, roleVars, reducerVars, values, vi, ri,
                   sentTo, hvalues, waiting>>

\* notifyMapperDone returns an error: logged, the loop goes on.
NotifySendFail(w) ==
    /\ spc[w] = "notify"
    /\ ri[w] <= Len(NotifyTargets(w))
    /\ failures < MaxFailures
    /\ failures' = failures + 1
    /\ notified' = [notified EXCEPT ![w] = Append(@, NotifyTargets(w)[ri[w]])]
    /\ ri' = [ri EXCEPT ![w] = ri[w] + 1]
    /\ UNCHANGED <<masterVars, roleVars, reducerVars, spc, values, vi, sentTo,
                   handlerVars>>

\* The NotifyMapperDone response arrives: next reducer.
NotifyReturn(w) ==
    /\ spc[w] = "awaitNotify"
    /\ hpc[w] = "returned"
    /\ hpc' = [hpc EXCEPT ![w] = "idle"]
    /\ spc' = [spc EXCEPT ![w] = "notify"]
    /\ ri' = [ri EXCEPT ![w] = ri[w] + 1]
    /\ UNCHANGED <<masterVars, failures, roleVars, reducerVars, values, vi,
                   notified, sentTo, htarget, hvalues, waiting>>

\* Variant: the loop ends before the last reducer.
NotifyLoopDoneEarly(w) == ri[w] >= Len(NotifyTargets(w))

\* for _, r := range ws.reducers: the loop ends after the last reducer.
NotifyLoopDone(w) == ri[w] > Len(NotifyTargets(w))

\* return "Mapper finished sending data."
SendChunkReturn(w) ==
    /\ spc[w] = "notify"
    /\ NotifyLoopDone(w)
    /\ spc' = [spc EXCEPT ![w] = "returned"]
    /\ UNCHANGED <<masterVars, failures, roleVars, reducerVars, values, vi, ri,
                   notified, sentTo, handlerVars>>

(***************************************************************************)
(* Worker: SendMappedData.                                                 *)
(***************************************************************************)
\* Variant: the handlers do not look at the role of the node.
HandlerRejectsNever(h) == FALSE

\* if ws.isMapper { return &pb.Empty{}, nil }
HandlerRejects(h) == isMapper[htarget[h]]

\* Variant: Lock returns although the mutex is held.
LockFreeAlways(r) == TRUE

\* ws.mu.Lock() returns when no handler holds the mutex of node r.
LockFree(r) == mu[r] = 0

\* if ws.isMapper { return }; ws.mu.Lock()
SMD_Lock(h) ==
    /\ hpc[h] = "smd"
    /\ IF HandlerRejects(h)
         THEN /\ hpc' = [hpc EXCEPT ![h] = "returned"]
              /\ mu' = mu
         ELSE /\ LockFree(htarget[h])
              /\ mu' = [mu EXCEPT ![htarget[h]] = h]
              /\ hpc' = [hpc EXCEPT ![h] = "smd_locked"]
    /\ UNCHANGED <<masterVars, failures, roleVars, receivedData, mappersToWait,
                   outputFile, finalizeRuns, signals, signalsFrom, mapperVars,
                   htarget, hvalues, waiting>>

\* ws.receivedData = append(ws.receivedData, req.Values...); ws.mu.Unlock()
SMD_Append(h) ==
    /\ hpc[h] = "smd_locked"
    /\ receivedData' = [receivedData EXCEPT ![htarget[h]] = @ \o hvalues[h]]
    /\ mu' = [mu EXCEPT ![htarget[h]] = 0]
    /\ hpc' = [hpc EXCEPT ![h] = "returned"]
    /\ UNCHANGED <<masterVars, failures, roleVars, mappersToWait, outputFile,
                   finalizeRuns, signals, signalsFrom, mapperVars, htarget,
                   hvalues, waiting>>

(***************************************************************************)
(* Worker: NotifyMapperDone and finalizeReduce.                            *)
(***************************************************************************)
\* if ws.isMapper { return }; ws.mu.Lock()
NMD_Lock(h) ==
    /\ hpc[h] = "nmd"
    /\ IF HandlerRejects(h)
         THEN /\ hpc' = [hpc EXCEPT ![h] = "returned"]
              /\ mu' = mu
         ELSE /\ LockFree(htarget[h])
              /\ mu' = [mu EXCEPT ![htarget[h]] = h]
              /\ hpc' = [hpc EXCEPT ![h] = "nmd_locked"]
    /\ UNCHANGED <<masterVars, failures, roleVars, receivedData, mappersToWait,
                   outputFile, finalizeRuns, signals, signalsFrom, mapperVars,
                   htarget, hvalues, waiting>>

\* Variant: the count is decremented a second time for the local copy.
CountAfterSignalTwice(n) == n - 2

\* ws.mappersToWait--
CountAfterSignal(n) == n - 1

\* ws.mappersToWait--; waiting := ws.mappersToWait; ws.mu.Unlock()
NMD_Decrement(h) ==
    /\ hpc[h] = "nmd_locked"
    /\ mappersToWait' = [mappersToWait EXCEPT ![htarget[h]] = CountAfterSignal(@)]
    /\ waiting' = [waiting EXCEPT ![h] = CountAfterSignal(mappersToWait[htarget[h]])]
    /\ signals' = [signals EXCEPT ![htarget[h]] = @ + 1]
    /\ signalsFrom' = [signalsFrom EXCEPT ![htarget[h]] = @ \cup {h}]
    /\ mu' = [mu EXCEPT ![htarget[h]] = 0]
    /\ hpc' = [hpc EXCEPT ![h] = "nmd_check"]
    /\ UNCHANGED <<masterVars, failures, roleVars, receivedData, outputFile,
                   finalizeRuns, mapperVars, htarget, hvalues>>

\* Variant: the handler tests the shared field after the unlock.
ObservedWaitingShared(h) == mappersToWait[htarget[h]]

\* The count the handler tests after the unlock: its local copy.
ObservedWaiting(h) == waiting[h]

\* Variant: the handler finalizes when the count has gone below zero.
FinalizeDueBelowZero(h) == ObservedWaiting(h) < 0

\* waiting == 0
FinalizeDue(h) == ObservedWaiting(h) = 0

\* if waiting == 0 { ws.finalizeReduce() }; finalizeReduce runs inside the
\* handler, which returns after it.
NMD_Check(h) ==
    /\ hpc[h] = "nmd_check"
    /\ hpc' = [hpc EXCEPT ![h] = IF FinalizeDue(h) THEN "fin" ELSE "returned"]
    /\ UNCHANGED <<masterVars, failures, roleVars, reducerVars, mapperVars,
                   htarget, hvalues, waiting>>

\* finalizeReduce: ws.mu.Lock()
FIN_Lock(h) ==
    /\ hpc[h] = "fin"
    /\ LockFree(htarget[h])
    /\ mu' = [mu EXCEPT ![htarget[h]] = h]
    /\ hpc' = [hpc EXCEPT ![h] = "fin_locked"]
    /\ UNCHANGED <<masterVars, failures, roleVars, receivedData, mappersToWait,
                   outputFile, finalizeRuns, signals, signalsFrom, mapperVars,
                   htarget, hvalues, waiting>>

\* Variant: the sorted values stay in receivedData.
DataAfterFinalizeKept(data) == SortAscending(data)

\* ws.receivedData = []int64{}
DataAfterFinalize(data) == <<>>

\* finalizeReduce: sort, write the file, empty receivedData, unlock.
FIN_Write(h) ==
    /\ hpc[h] = "fin_locked"
    /\ outputFile' = [outputFile EXCEPT
                        ![htarget[h]] = [exists |-> TRUE,
                                         lines |-> SortAscending(receivedData[htarget[h]])]]
    /\ receivedData' = [receivedData EXCEPT ![htarget[h]] = DataAfterFinalize(@)]
    /\ finalizeRuns' = [finalizeRuns EXCEPT ![htarget[h]] = @ + 1]
    /\ mu' = [mu EXCEPT ![htarget[h]] = 0]
    /\ hpc' = [hpc EXCEPT ![h] = "returned"]
    /\ UNCHANGED <<masterVars, failures, roleVars, mappersToWait, signals,
                   signalsFrom, mapperVars, htarget, hvalues, waiting>>

(***************************************************************************)
(* The job: one master run on freshly started workers.                     *)
(***************************************************************************)
Next ==
    \/ LoadAndPlan
    \/ AssignMapperOk
    \/ AssignMapperFail
    \/ AssignReducerOk
    \/ AssignReducerFail
    \/ SplitInput
    \/ DeliverChunk
    \/ DeliverChunkFail
    \/ ChunkAcked
    \/ \E w \in Nodes : SendChunkEnter(w)
    \/ \E w \in Nodes : RouteSkip(w)
    \/ \E w \in Nodes : RouteSend(w)
    \/ \E w \in Nodes : RouteSendFail(w)
    \/ \E w \in Nodes : RouteReturn(w)
    \/ \E w \in Nodes : RouteDone(w)
    \/ \E w \in Nodes : NotifySend(w)
    \/ \E w \in Nodes : NotifySendFail(w)
    \/ \E w \in Nodes : NotifyReturn(w)
    \/ \E w \in Nodes : SendChunkReturn(w)
    \/ \E h \in Nodes : SMD_Lock(h)
    \/ \E h \in Nodes : SMD_Append(h)
    \/ \E h \in Nodes : NMD_Lock(h)
    \/ \E h \in Nodes : NMD_Decrement(h)
    \/ \E h \in Nodes : NMD_Check(h)
    \/ \E h \in Nodes : FIN_Lock(h)
    \/ \E h \in Nodes : FIN_Write(h)

Spec == Init /\ [][Next]_vars

\* The same job with the processes scheduled fairly: a step that can be
\* taken is eventually taken.
FairSpec == Spec /\ WF_vars(Next)

(***************************************************************************)
(* Concurrent calls on one reducer: node 1 has been assigned the reducer   *)
(* role with a countdown of N, N NotifyMapperDone calls (slots 1 .. N) and *)
(* possibly one SendMappedData call (the last slot) are in flight, and the *)
(* gRPC server runs their handlers concurrently.                           *)
(***************************************************************************)
Reducer1 == SetMin(Nodes)

DataSlot == MaxWorkers

InitRace ==
    /\ cpc = "race"
    /\ cfgWorkers = 1
    /\ cfgMappers = 0
    /\ cfgReducers = 1
    /\ allValues = <<>>
    /\ intervals = <<>>
    /\ ci = 1
    /\ sampledValues = <<>>
    /\ chunks = <<>>
    /\ failures = 0
    /\ prevJob = "none"
    /\ \E N \in 1 .. MaxWorkers - 1 :
        /\ totalMappers = [w \in Nodes |-> IF w = Reducer1 THEN N ELSE 0]
        /\ mappersToWait = [w \in Nodes |->
                               IF w = Reducer1 THEN CountdownTarget(N) ELSE 0]
        /\ \E data \in SeqsUpTo(Values, 1) :
            /\ hpc = [h \in Nodes |->
                        IF h <= N THEN "nmd"
                        ELSE IF h = DataSlot /\ data # <<>> THEN "smd"
                        ELSE "idle"]
            /\ htarget = [h \in Nodes |->
                            IF h <= N \/ (h = DataSlot /\ data # <<>>)
                              THEN Reducer1 ELSE NoAddr]
            /\ hvalues = [h \in Nodes |-> IF h = DataSlot THEN data ELSE <<>>]
    /\ receivedData \in [Nodes -> SeqsUpTo(Values, 1)]
    /\ \A w \in Nodes : w # Reducer1 => receivedData[w] = <<>>
    /\ assigned = [w \in Nodes |-> w = Reducer1]
    /\ isMapper = [w \in Nodes |-> FALSE]
    /\ reducers = [w \in Nodes |-> <<>>]
    /\ intervalStart = [w \in Nodes |-> 0]
    /\ intervalEnd = [w \in Nodes |-> 0]
    /\ mu = [w \in Nodes |-> 0]
    /\ outputFile = [w \in Nodes |-> NoFile]
    /\ spc = [w \in Nodes |-> "idle"]
    /\ values = [w \in Nodes |-> <<>>]
    /\ vi = [w \in Nodes |-> 1]
    /\ ri = [w \in Nodes |-> 1]
    /\ waiting = [h \in Nodes |-> 0]
    /\ finalizeRuns = [w \in Nodes |-> 0]
    /\ signals = [w \in Nodes |-> 0]
    /\ signalsFrom = [w \in Nodes |-> {}]
    /\ notified = [w \in Nodes |-> <<>>]
    /\ sentTo = [w \in Nodes |-> {}]

NextRace ==
    \/ \E h \in Nodes : SMD_Lock(h)
    \/ \E h \in Nodes : SMD_Append(h)
    \/ \E h \in Nodes : NMD_Lock(h)
    \/ \E h \in Nodes : NMD_Decrement(h)
    \/ \E h \in Nodes : NMD_Check(h)
    \/ \E h \in Nodes : FIN_Lock(h)
    \/ \E h \in Nodes : FIN_Write(h)

SpecRace == InitRace /\ [][NextRace]_vars

(***************************************************************************)
(* Calls that reach workers whatever their role: nodes 1 and 2 are mappers *)
(* or reducers, node 1 holds a table that names node 2, the last node has  *)
(* served no AssignRole, and a SendChunk call at node 1 or the last node,  *)
(* a SendMappedData call and a NotifyMapperDone call at node 1, 2 or the   *)
(* last node are in flight.                                                *)
(***************************************************************************)
NotifySlot == MaxWorkers - 1

\* A worker process that has served no AssignRole: ws := &worker.WorkerServer{}
\* with every field at its zero value.
FreshNode == SetMax(Nodes)

StrayTable == <<[Address |-> 2, IntervalStart |-> 0, IntervalEnd |-> MaxInt]>>

InitStray ==
    /\ cpc = "stray"
    /\ cfgWorkers = 2
    /\ cfgMappers = 1
    /\ cfgReducers = 1
    /\ allValues = <<>>
    /\ intervals = <<>>
    /\ ci = 1
    /\ sampledValues = <<>>
    /\ chunks = <<>>
    /\ failures = 0
    /\ prevJob = "none"
    /\ isMapper \in [Nodes -> BOOLEAN]
    /\ \A w \in Nodes : w > 2 => ~isMapper[w]
    /\ reducers = [w \in Nodes |-> IF w = 1 THEN StrayTable ELSE <<>>]
    /\ \E n \in 1 .. 2 :
          /\ totalMappers = [w \in Nodes |-> IF w <= 2 THEN n ELSE 0]
          /\ mappersToWait = [w \in Nodes |-> IF w <= 2 THEN CountdownTarget(n) ELSE 0]
    /\ intervalStart = [w \in Nodes |-> 0]
    /\ intervalEnd = [w \in Nodes |-> 0]
    /\ mu = [w \in Nodes |-> 0]
    /\ \E d \in {<<>>, <<0>>} :
          receivedData = [w \in Nodes |-> IF w <= 2 THEN d ELSE <<>>]
    /\ outputFile = [w \in Nodes |-> NoFile]
    /\ \E c \in {1, FreshNode} :
          /\ spc = [w \in Nodes |-> IF w = c THEN "enter" ELSE "idle"]
          /\ \E chunk \in SeqsUpTo({-1, 0}, MaxLen) :
                values = [w \in Nodes |-> IF w = c THEN chunk ELSE <<>>]
    /\ vi = [w \in Nodes |-> 1]
    /\ ri = [w \in Nodes |-> 1]
    /\ hpc = [h \in Nodes |->
                IF h = DataSlot THEN "smd"
                ELSE IF h = NotifySlot THEN "nmd" ELSE "idle"]
    /\ htarget \in [Nodes -> {NoAddr, 1, 2, FreshNode}]
    /\ \A h \in Nodes : htarget[h] = NoAddr <=> h \notin {DataSlot, NotifySlot}
    /\ hvalues = [h \in Nodes |-> IF h = DataSlot THEN <<1>> ELSE <<>>]
    /\ waiting = [h \in Nodes |-> 0]
    /\ assigned = [w \in Nodes |-> w <= 2]
    /\ finalizeRuns = [w \in Nodes |-> 0]
    /\ signals = [w \in Nodes |-> 0]
    /\ signalsFrom = [w \in Nodes |-> {}]
    /\ notified = [w \in Nodes |-> <<>>]
    /\ sentTo = [w \in Nodes |-> {}]

NextStray ==
    \/ \E w \in Nodes : SendChunkEnter(w)
    \/ \E w \in Nodes : RouteSkip(w)
    \/ \E w \in Nodes : RouteSend(w)
    \/ \E w \in Nodes : RouteSendFail(w)
    \/ \E w \in Nodes : RouteReturn(w)
    \/ \E w \in Nodes : RouteDone(w)
    \/ \E w \in Nodes : NotifySend(w)
    \/ \E w \in Nodes : NotifySendFail(w)
    \/ \E w \in Nodes : NotifyReturn(w)
    \/ \E w \in Nodes : SendChunkReturn(w)
    \/ \E h \in Nodes : SMD_Lock(h)
    \/ \E h \in Nodes : SMD_Append(h)
    \/ \E h \in Nodes : NMD_Lock(h)
    \/ \E h \in Nodes : NMD_Decrement(h)
    \/ \E h \in Nodes : NMD_Check(h)
    \/ \E h \in Nodes : FIN_Lock(h)
    \/ \E h \in Nodes : FIN_Write(h)

SpecStray == InitStray /\ [][NextStray]_vars

(***************************************************************************)
(* The planning functions of RunMaster on their own: from a configuration  *)
(* and an input, one of the interval planners or one of the chunk splits   *)
(* is computed.                                                            *)
(***************************************************************************)
\* An input of n values that repeats the values of p.
Repeat(p, n) == [i \in 1 .. n |-> p[((i - 1) % Len(p)) + 1]]

\* Inputs large enough for samples of more than one value: one or two
\* values repeated.
LargeInputs ==
    {Repeat(p, n) : p \in [1 .. 1 -> Values] \cup [1 .. 2 -> Values],
                    n \in {SampleDivisor + 1, 2 * SampleDivisor, 3 * SampleDivisor}}

\* Inputs of about as many values as there are mappers, and of 10: one or
\* two values repeated.
MidInputs ==
    {Repeat(p, n) : p \in [1 .. 1 -> Values] \cup [1 .. 2 -> Values],
                    n \in {4, 5, 6, 10}}

InitPlan ==
    /\ cpc = "plan"
    /\ cfgWorkers \in 0 .. MaxWorkers
    /\ cfgMappers \in 0 .. MaxWorkers
    /\ cfgReducers = 0
    /\ allValues \in SeqsUpTo(Values, MaxLen) \cup MidInputs \cup LargeInputs
    /\ intervals = <<>>
    /\ ci = 1
    /\ sampledValues = <<>>
    /\ chunks = <<>>
    /\ failures = 0
    /\ prevJob = "none"
    /\ WorkersInit

\* RunMaster up to the intervals, exact-range planner.
PlanExact ==
    /\ cpc = "plan"
    /\ cfgReducers' = cfgWorkers - cfgMappers
    /\ LET out == PlanOutcome(allValues, cfgWorkers - cfgMappers)
       IN  IF out = "ok"
             THEN /\ intervals' = ExactIntervals(allValues, cfgWorkers - cfgMappers)
                  /\ cpc' = "exact"
             ELSE /\ intervals' = intervals
                  /\ cpc' = out
    /\ UNCHANGED <<prevJob, planVars, cfgWorkers, cfgMappers, allValues, ci, failures,
                   roleVars, reducerVars, mapperVars, handlerVars>>

\* RunMaster up to the intervals, sampled-quantile planner.
PlanSampled ==
    /\ cpc = "plan"
    /\ cfgReducers' = cfgWorkers - cfgMappers
    /\ LET out == PlanOutcome(allValues, cfgWorkers - cfgMappers)
       IN  IF out = "ok"
             THEN \E sample \in Samples(allValues) :
                    /\ sampledValues' = SortAscending(sample)
                    /\ intervals' = SampledIntervals(SortAscending(sample),
                                                     cfgWorkers - cfgMappers)
                    /\ cpc' = "sampled"
             ELSE /\ sampledValues' = sampledValues
                  /\ intervals' = intervals
                  /\ cpc' = out
    /\ UNCHANGED <<prevJob, chunks, cfgWorkers, cfgMappers, allValues, ci, failures,
                   roleVars, reducerVars, mapperVars, handlerVars>>

\* The chunk split of RunMaster, remainder-distributing variant; it is
\* reached when the planning has succeeded.
SplitRemainder ==
    /\ cpc = "plan"
    /\ PlanOutcome(allValues, cfgWorkers - cfgMappers) = "ok"
    /\ cfgReducers' = cfgWorkers - cfgMappers
    /\ IF cfgMappers = 0
         THEN cpc' = "panic" /\ chunks' = chunks
         ELSE cpc' = "splitRemainder"
              /\ chunks' = RemainderChunks(allValues, cfgMappers)
    /\ UNCHANGED <<prevJob, sampledValues, cfgWorkers, cfgMappers, allValues, intervals, ci,
                   failures, roleVars, reducerVars, mapperVars, handlerVars>>

\* The chunk split of RunMaster, ceiling-division variant: the chunks
\* computed up to the first slice expression that panics.
SplitCeil ==
    /\ cpc = "plan"
    /\ PlanOutcome(allValues, cfgWorkers - cfgMappers) = "ok"
    /\ cfgReducers' = cfgWorkers - cfgMappers
    /\ IF cfgMappers = 0
         THEN cpc' = "panic" /\ chunks' = chunks
         ELSE LET bad == {i \in 0 .. cfgMappers - 1 :
                             CeilChunkPanics(allValues, cfgMappers, i)}
                  n   == IF bad = {} THEN cfgMappers ELSE SetMin(bad)
              IN  /\ cpc' = IF bad = {} THEN "splitCeil" ELSE "panic"
                  /\ chunks' = [k \in 1 .. n |-> CeilChunk(allValues, cfgMappers, k - 1)]
    /\ UNCHANGED <<prevJob, sampledValues, cfgWorkers, cfgMappers, allValues, intervals, ci,
                   failures, roleVars, reducerVars, mapperVars, handlerVars>>

NextPlan ==
    \/ PlanExact
    \/ PlanSampled
    \/ SplitRemainder
    \/ SplitCeil

SpecPlan == InitPlan /\ [][NextPlan]_vars

(***************************************************************************)
(* Vocabulary of the properties.                                           *)
(***************************************************************************)
MapperAddrs == 1 .. cfgMappers

ReducerAddrs == (cfgMappers + 1) .. (cfgMappers + cfgReducers)

\* A configuration and input on which the master reaches the role
\* assignments.
ValidJob == allValues # <<>> /\ cfgMappers >= 1 /\ cfgWorkers - cfgMappers >= 1

CountOf(s, v) == Cardinality({i \in DOMAIN s : s[i] = v})

IsReducer(r) == assigned[r] /\ ~isMapper[r]

Finalizing(r) == \E h \in Nodes : htarget[h] = r /\ hpc[h] \in {"fin", "fin_locked"}

AllReducersFinalized ==
    /\ cfgReducers >= 1
    /\ \A r \in ReducerAddrs : finalizeRuns[r] >= 1

AllCallsReturned == \A h \in Nodes : hpc[h] \in {"idle", "returned"}

\* The reducer output files one after the other, in interval order.
RECURSIVE ConcatOutputs(_)
ConcatOutputs(k) ==
    IF k = 0 THEN <<>>
    ELSE ConcatOutputs(k - 1) \o outputFile[cfgMappers + k].lines

\* Mapper m's SendChunk run has left its value loop.
MapperRouted(m) ==
    \/ cpc = "done"
    \/ cpc \in {"sendChunks", "awaitChunk"} /\ m < ci
    \/ cpc = "awaitChunk" /\ m = ci /\ spc[m] \in {"notify", "awaitNotify", "returned"}

(***************************************************************************)
(* Two jobs on the same running workers: when the master of the first job  *)
(* has ended (done, log.Fatalf or panic), a new master is started on a     *)
(* configuration and an input of its own.  The workers keep their fields;  *)
(* the locals of the returned calls are gone, and the history of the       *)
(* finalize runs and signals starts anew.                                  *)
(***************************************************************************)
\* The inputs and configurations of the two jobs.
ReuseInputs == SeqsUpTo({0, MaxInt}, 2)

ReuseWorkers == 2 .. 3

ReuseMappers == 0 .. 2

InitReuse ==
    /\ Init
    /\ cfgWorkers \in ReuseWorkers
    /\ cfgMappers \in ReuseMappers
    /\ allValues \in ReuseInputs

StartNextJob ==
    /\ cpc \in {"done", "fatal", "panic"}
    /\ prevJob = "none"
    /\ prevJob' = IF cpc = "done" /\ AllReducersFinalized
                     THEN "finalized" ELSE "unfinished"
    /\ cpc' = "start"
    /\ cfgWorkers' \in ReuseWorkers
    /\ cfgMappers' \in ReuseMappers
    /\ cfgReducers' = 0
    /\ allValues' \in ReuseInputs
    /\ intervals' = <<>>
    /\ ci' = 1
    /\ spc' = [w \in Nodes |-> "idle"]
    /\ values' = [w \in Nodes |-> <<>>]
    /\ vi' = [w \in Nodes |-> 1]
    /\ ri' = [w \in Nodes |-> 1]
    /\ notified' = [w \in Nodes |-> <<>>]
    /\ sentTo' = [w \in Nodes |-> {}]
    /\ hpc' = [h \in Nodes |-> "idle"]
    /\ htarget' = [h \in Nodes |-> NoAddr]
    /\ hvalues' = [h \in Nodes |-> <<>>]
    /\ waiting' = [h \in Nodes |-> 0]
    /\ finalizeRuns' = [w \in Nodes |-> 0]
    /\ signals' = [w \in Nodes |-> 0]
    /\ signalsFrom' = [w \in Nodes |-> {}]
    /\ UNCHANGED <<planVars, failures, roleVars, mu, receivedData, mappersToWait,
                   outputFile>>

NextReuse ==
    \/ Next
    \/ StartNextJob

SpecReuse == InitReuse /\ [][NextReuse]_vars

(***************************************************************************)
(* Properties.                                                             *)
(***************************************************************************)
\* C1: on a reducer whose countdown AssignRole set to N >= 1, N concurrent
\* NotifyMapperDone calls, in any interleaving, run the sort-and-write of
\* finalizeReduce exactly once: never more than one run done or under way,
\* and exactly one done when all the calls have returned.
C1_FinalizeExactlyOnce ==
    /\ Cardinality({h \in Nodes : hpc[h] \in {"fin", "fin_locked"}})
          + finalizeRuns[Reducer1] <= 1
    /\ AllCallsReturned => finalizeRuns[Reducer1] = 1

C1_Witness ==
    /\ cpc = "race"
    /\ totalMappers[Reducer1] >= 2
    /\ AllCallsReturned
    /\ finalizeRuns[Reducer1] = 1

\* C2: in a job without transport failure, once every reducer has
\* finalized, the reducer outputs together hold exactly the values of the
\* input, each as often as the input holds it.
C2_OutputsEqualInput ==
    (failures = 0 /\ AllReducersFinalized) =>
        /\ Len(ConcatOutputs(cfgReducers)) = Len(allValues)
        /\ \A v \in Range(allValues) :
              CountOf(ConcatOutputs(cfgReducers), v) = CountOf(allValues, v)

\* C3: once a reducer has sorted and written its output, every mapper has
\* left its value loop, and no value is appended to the reducer's
\* receivedData afterwards.
C3_NoAppendAfterFinalize ==
    /\ [](\A r \in Nodes : finalizeRuns[r] > 0 =>
              \A m \in MapperAddrs : MapperRouted(m))
    /\ [][\A r \in Nodes : finalizeRuns[r] > 0 =>
              receivedData'[r] = receivedData[r]]_vars

C3_Witness ==
    /\ cpc = "done"
    /\ cfgMappers >= 2
    /\ \E r \in ReducerAddrs :
          finalizeRuns[r] = 1 /\ Len(outputFile[r].lines) >= 2

\* C4: every reducer output is non-decreasing and holds only values of the
\* reducer's own interval, and in a job without transport failure the
\* outputs in interval order, one after the other, are the input sorted
\* ascending (equal values kept).
C4_OutputsSortedAndPartitioned ==
    /\ \A r \in ReducerAddrs :
          LET out == outputFile[r].lines
          IN  /\ \A i, j \in DOMAIN out : i < j => out[i] <= out[j]
              /\ \A i \in DOMAIN out :
                    intervalStart[r] <= out[i] /\ out[i] < intervalEnd[r]
    /\ (failures = 0 /\ AllReducersFinalized) =>
          ConcatOutputs(cfgReducers) = SortAscending(allValues)

\* C5: the intervals of the exact-range planner are ordered by start,
\* contiguous and pairwise disjoint, begin at the input minimum and end at
\* the input maximum + 1, and every input value lies in exactly one.
C5_ExactIntervalsPartition ==
    intervals # <<>> =>
        LET R == Len(intervals)
            In(k, x) == intervals[k][1] <= x /\ x < intervals[k][2]
        IN  /\ \A k \in 1 .. R - 1 :
                  /\ intervals[k][1] <= intervals[k + 1][1]
                  /\ intervals[k][2] = intervals[k + 1][1]
            /\ \A j, k \in 1 .. R :
                  j # k => \A x \in MinInt .. MaxInt : ~(In(j, x) /\ In(k, x))
            /\ intervals[1][1] = MinVal(allValues)
            /\ intervals[R][2] = MaxVal(allValues) + 1
            /\ \A v \in Range(allValues) :
                  Cardinality({k \in 1 .. R : In(k, v)}) = 1

\* C7: a reducer sorts and writes only after it has counted a completion
\* signal from each of the mappers it was told to await; with fewer
\* signals it has no output and no finalize under way.
C7_FinalizeOnlyAfterAllSignals ==
    \A r \in Nodes :
        (IsReducer(r) /\ (finalizeRuns[r] > 0 \/ outputFile[r].exists \/ Finalizing(r)))
            => /\ signals[r] >= totalMappers[r]
               /\ totalMappers[r] = cfgMappers
               /\ signalsFrom[r] = MapperAddrs

C7_Witness ==
    /\ cpc = "done"
    /\ \E r1, r2 \in ReducerAddrs :
          /\ signals[r1] < totalMappers[r1]
          /\ finalizeRuns[r1] = 0 /\ ~outputFile[r1].exists
          /\ signals[r2] = totalMappers[r2]
          /\ finalizeRuns[r2] = 1

\* C8: under fair scheduling a job that suffers no transport failure
\* brings every reducer to finalize.
C8_EveryReducerFinalizes ==
    <>(~ValidJob \/ failures > 0 \/ AllReducersFinalized)

C8_Witness ==
    /\ failures = 0
    /\ AllReducersFinalized
    /\ \A r \in ReducerAddrs : mappersToWait[r] = 0
    /\ \E r \in ReducerAddrs : outputFile[r].lines = <<>>
    /\ \E r \in ReducerAddrs : \E m \in MapperAddrs : r \notin sentTo[m] /\ sentTo[m] # {}

\* C9: a SendChunk run sends NotifyMapperDone to no reducer before its
\* value loop has passed the last value, to no reducer twice, and by its
\* return to every reducer of the table once, also to those it sent no
\* value.
C9_NotifyOncePerReducer ==
    \A m \in Nodes :
        /\ notified[m] # <<>> => vi[m] > Len(values[m])
        /\ \A r \in Nodes : CountOf(notified[m], r) <= 1
        /\ (spc[m] = "returned" /\ isMapper[m]) =>
              /\ Len(notified[m]) = cfgReducers
              /\ \A r \in ReducerAddrs : CountOf(notified[m], r) = 1

C9_Witness ==
    \E m \in MapperAddrs :
        /\ spc[m] = "returned"
        /\ isMapper[m]
        /\ Len(values[m]) >= 1
        /\ \E r \in ReducerAddrs : r \notin sentTo[m] /\ CountOf(notified[m], r) = 1

\* C10: when the master delivers a chunk every mapper and every reducer
\* has acknowledged AssignRole; no SendChunk, SendMappedData or
\* NotifyMapperDone runs on a node without an assigned role.
C10_RolesBeforeTraffic ==
    /\ (cpc \in {"sendChunks", "awaitChunk", "done"}) =>
          \A w \in 1 .. cfgWorkers : assigned[w]
    /\ \A w \in Nodes : spc[w] # "idle" => assigned[w]
    /\ \A h \in Nodes : hpc[h] # "idle" => assigned[htarget[h]]

C10_Witness ==
    /\ cpc = "awaitChunk"
    /\ \E h \in Nodes : hpc[h] = "smd_locked" /\ ~isMapper[htarget[h]]

\* C6: the intervals of the sampled-quantile planner are sorted by start
\* and pairwise disjoint, and the mapper's lookup matches every
\* representable value, the smallest and the largest included, with
\* exactly one of them.
C6_SampledIntervalsCoverDomain ==
    cpc = "sampled" =>
        LET R == Len(intervals)
            In(k, x) == intervals[k][1] <= x /\ x < intervals[k][2]
        IN  /\ \A k \in 1 .. R - 1 : intervals[k][1] <= intervals[k + 1][1]
            /\ \A j, k \in 1 .. R :
                  j # k => \A x \in MinInt .. MaxInt : ~(In(j, x) /\ In(k, x))
            /\ \A x \in MinInt .. MaxInt :
                  /\ findReducer(ReducerInfos(intervals, cfgMappers), x) # NoAddr
                  /\ Cardinality({k \in 1 .. R : In(k, x)}) = 1

\* The master has received the SendChunk response of mapper m.
ChunkAckedBy(m) ==
    \/ cpc = "done"
    \/ cpc \in {"sendChunks", "awaitChunk"} /\ m < ci

\* C11: when a mapper's SendChunk has returned (and when the master has its
\* response) the run has passed every value of the chunk, none of its
\* SendMappedData or NotifyMapperDone calls is still under way, it has
\* sent NotifyMapperDone to every reducer once, and without transport
\* failure every reducer has counted that signal.
C11_SendChunkSynchronous ==
    \A m \in MapperAddrs :
        ((spc[m] = "returned" /\ isMapper[m]) \/ (ValidJob /\ ChunkAckedBy(m))) =>
            /\ vi[m] > Len(values[m])
            /\ hpc[m] = "idle"
            /\ notified[m] = NotifyTargets(m)
            /\ \A r \in ReducerAddrs : CountOf(notified[m], r) = 1
            /\ failures = 0 => \A r \in ReducerAddrs : m \in signalsFrom[r]

C11_Witness ==
    /\ cpc = "awaitChunk"
    /\ failures = 0
    /\ cfgReducers >= 2
    /\ spc[ci] = "returned"
    /\ Len(values[ci]) >= 2
    /\ Cardinality(sentTo[ci]) >= 2
    /\ \A r \in ReducerAddrs : ci \in signalsFrom[r]

\* The first k chunks one after the other, in mapper order.
RECURSIVE ConcatChunks(_)
ConcatChunks(k) ==
    IF k = 0 THEN <<>> ELSE ConcatChunks(k - 1) \o chunks[k]

\* C12: for N values and M >= 1 mappers the remainder-distributing split
\* yields M chunks, the first N mod M of size N div M + 1 and the others of
\* size N div M (so sizes differ by at most 1), that one after the other
\* in mapper order are the input, none empty when N >= M; 10 values for 3
\* mappers give the sizes 4, 3, 3.
C12_RemainderSplit ==
    cpc = "splitRemainder" =>
        LET N == Len(allValues)
            M == cfgMappers
        IN  /\ Len(chunks) = M
            /\ \A k \in 1 .. M :
                  Len(chunks[k]) = (N \div M) + (IF k <= N % M THEN 1 ELSE 0)
            /\ \A j, k \in 1 .. M : Len(chunks[j]) - Len(chunks[k]) <= 1
            /\ ConcatChunks(M) = allValues
            /\ N >= M => \A k \in 1 .. M : chunks[k] # <<>>
            /\ (N = 10 /\ M = 3) =>
                  <<Len(chunks[1]), Len(chunks[2]), Len(chunks[3])>> = <<4, 3, 3>>

C12_Witness ==
    /\ cpc = "splitRemainder"
    /\ Len(allValues) = 10
    /\ cfgMappers = 3
    /\ Len(chunks[1]) = 4
    /\ Len(chunks[3]) = 3
    /\ allValues[1] # allValues[2]

\* C13: for N >= M >= 1 the ceiling-division split gives each of the M
\* mappers a non-empty chunk (no slice expression panics), and the chunks
\* one after the other in mapper order are the input.
C13_CeilSplitNonEmpty ==
    (cpc \in {"splitCeil", "panic"} /\ chunks # <<>>
        /\ Len(allValues) >= cfgMappers /\ cfgMappers >= 1) =>
            /\ cpc = "splitCeil"
            /\ Len(chunks) = cfgMappers
            /\ \A k \in 1 .. cfgMappers : chunks[k] # <<>>
            /\ ConcatChunks(cfgMappers) = allValues

\* C14: for 1 <= N < M both splits run to the end without a panic and
\* yield M chunks, those after the N-th empty.
C14_FewerValuesThanMappers ==
    (cpc \in {"splitRemainder", "splitCeil", "panic"} /\ cfgWorkers - cfgMappers >= 1
        /\ 1 <= Len(allValues) /\ Len(allValues) < cfgMappers) =>
            /\ cpc # "panic"
            /\ Len(chunks) = cfgMappers
            /\ \A k \in (Len(allValues) + 1) .. cfgMappers : chunks[k] = <<>>

\* C15: once a reducer has sorted and written, SendMappedData and
\* NotifyMapperDone calls leave its state as finalizeReduce left it: no
\* accumulated value, no signal awaited, one finalize run, the output it
\* wrote.
C15_NoEffectAfterFinalize ==
    \A r \in Nodes :
        finalizeRuns[r] > 0 =>
            /\ receivedData[r] = <<>>
            /\ mappersToWait[r] = 0
            /\ finalizeRuns[r] = 1
            /\ outputFile[r].exists

\* No node has received a call: no role acknowledged, no SendChunk,
\* SendMappedData or NotifyMapperDone started.
NoCallIssued ==
    /\ \A w \in Nodes : ~assigned[w] /\ spc[w] = "idle" /\ hpc[w] = "idle"
    /\ \A w \in Nodes : values[w] = <<>> /\ notified[w] = <<>>

\* C16: with a reducer count R <= 0 the master ends in a reported failure
\* of the planning (not a run-time panic), without intervals and without
\* having issued any call.
C16_InvalidPartitionCountFails ==
    (cpc # "start" /\ cfgReducers <= 0) =>
        /\ cpc = "fatal"
        /\ intervals = <<>>
        /\ NoCallIssued

\* C17: the sampled-quantile planner produces intervals only from a sample
\* of at least R values.
C17_SmallSampleFails ==
    cpc = "sampled" => Len(sampledValues) >= cfgReducers

\* C18: on an input without values the master ends in log.Fatalf, whatever
\* the configuration, without intervals and without having issued any
\* call.
C18_EmptyInputFails ==
    (cpc # "start" /\ allValues = <<>>) =>
        /\ cpc = "fatal"
        /\ intervals = <<>>
        /\ NoCallIssued

C18_Witness ==
    /\ allValues = <<>>
    /\ cpc = "fatal"
    /\ cfgMappers >= 1
    /\ cfgReducers <= 0

\* The positions of RunMaster at which the master is about to issue a call.
MasterCalling == {"assignMappers", "assignReducers", "sendChunks"}

\* C19: a failed AssignRole or SendChunk call of the master ends the
\* master at once, and an ended master issues nothing: no role is
\* acknowledged, no SendChunk run starts and no chunk is handed over
\* afterwards.
C19_AbortOnFailedCall ==
    /\ [][(cpc \in MasterCalling /\ failures' > failures) => cpc' = "fatal"]_vars
    /\ [][cpc = "fatal" =>
              /\ cpc' = "fatal"
              /\ assigned' = assigned
              /\ values' = values
              /\ \A w \in Nodes : spc[w] = "idle" => spc'[w] = "idle"]_vars
    /\ [](cpc = "fatal" =>
              /\ \A w \in Nodes : spc[w] = "idle" /\ hpc[w] = "idle"
              /\ allValues # <<>> =>
                    \/ \E w \in Nodes : w \in {ci, cfgMappers + ci} /\ ~assigned[w]
                    \/ (values[ci] = <<>> /\ notified[ci] = <<>>))

C19_Witness ==
    /\ cpc = "fatal"
    /\ failures = 1
    /\ ci = 2
    /\ \A w \in 1 .. cfgWorkers : assigned[w]
    /\ notified[1] # <<>>
    /\ notified[2] = <<>>
    /\ Len(allValues) >= 2

\* C20: a failed forward leaves the SendChunk run in its value loop, at the
\* next value, and the master waiting; the run then passes every value,
\* sends NotifyMapperDone to every reducer and returns, and the master
\* takes the response as it takes any other.
C20_ForwardFailureNotEscalated ==
    /\ [][\A w \in Nodes :
              (spc[w] = "route" /\ failures' > failures) =>
                  /\ spc'[w] = "route"
                  /\ vi'[w] = vi[w] + 1
                  /\ cpc' = cpc]_vars
    /\ [][cpc = "awaitChunk" => cpc' \in {"awaitChunk", "sendChunks", "done"}]_vars
    /\ [](\A m \in Nodes :
              (spc[m] = "returned" /\ isMapper[m]) =>
                  /\ vi[m] > Len(values[m])
                  /\ \A r \in ReducerAddrs : CountOf(notified[m], r) = 1)

C20_Witness ==
    /\ cpc = "done"
    /\ failures >= 1
    /\ AllReducersFinalized
    /\ Range(allValues) \subseteq {-1, 0, 1}
    /\ Len(allValues) >= 2
    /\ Len(ConcatOutputs(cfgReducers)) = Len(allValues) - 1

\* C22: on the input 10,3,5,1,2,9,8,7,4,6 with the first two of four
\* workers as mappers the exact-range planner yields the intervals [1,5)
\* and [5,11), the mappers are handed 10,3,5,1,2 and 9,8,7,4,6, and without
\* transport failure the first reducer writes 1,2,3,4 and the second
\* 5,6,7,8,9,10.
C22_TenValueScenario ==
    (allValues = ScenarioInput /\ cfgWorkers = 4 /\ cfgMappers = 2 /\ cpc # "start") =>
        /\ cfgReducers = 2
        /\ intervals = <<<<1, 5>>, <<5, 11>>>>
        /\ RemainderChunks(allValues, cfgMappers)
              = <<<<10, 3, 5, 1, 2>>, <<9, 8, 7, 4, 6>>>>
        /\ \A m \in MapperAddrs :
              values[m] # <<>> => values[m] = RemainderChunks(allValues, cfgMappers)[m]
        /\ (cpc = "done" /\ failures = 0) =>
              /\ outputFile[3] = [exists |-> TRUE, lines |-> <<1, 2, 3, 4>>]
              /\ outputFile[4] = [exists |-> TRUE, lines |-> <<5, 6, 7, 8, 9, 10>>]

C22_Witness ==
    /\ allValues = ScenarioInput
    /\ cfgWorkers = 4
    /\ cfgMappers = 2
    /\ cpc = "done"
    /\ failures = 0
    /\ values[2] = <<9, 8, 7, 4, 6>>
    /\ outputFile[4].lines = <<5, 6, 7, 8, 9, 10>>

\* The reducers the values of mapper m's chunk belong to.
TargetsOf(m) ==
    {findReducer(reducers[m], values[m][i]) : i \in DOMAIN values[m]} \ {NoAddr}

\* C21: a value that no interval of the table contains starts no call and
\* leaves the run in its value loop at the next value; at its return the
\* run has passed every value, has sent every other value of the chunk to
\* its reducer (no transport failure) and NotifyMapperDone to every
\* reducer.
C21_UnmatchedValueDropped ==
    /\ [][\A w \in Nodes :
              (spc[w] = "route" /\ vi[w] <= Len(values[w])
                  /\ findReducer(reducers[w], values[w][vi[w]]) = NoAddr) =>
                      /\ spc'[w] = "route"
                      /\ vi'[w] = vi[w] + 1
                      /\ hpc' = hpc
                      /\ sentTo' = sentTo
                      /\ receivedData' = receivedData
                      /\ cpc' = cpc]_vars
    /\ [](\A m \in Nodes :
              (spc[m] = "returned" /\ isMapper[m]) =>
                  /\ vi[m] > Len(values[m])
                  /\ failures = 0 => sentTo[m] = TargetsOf(m)
                  /\ notified[m] = NotifyTargets(m))

C21_Witness ==
    \E m \in MapperAddrs :
        /\ spc[m] = "returned"
        /\ failures = 0
        /\ Len(values[m]) >= 2
        /\ findReducer(reducers[m], values[m][1]) = NoAddr
        /\ findReducer(reducers[m], values[m][2]) \in sentTo[m]
        /\ notified[m] = NotifyTargets(m)

C25_TooFewWorkersFails ==
    (cpc # "start" /\ cfgWorkers < cfgMappers) =>
        /\ cpc = "fatal"
        /\ NoCallIssued

\* C26: from the decrement that brings the countdown to zero until the
\* end of finalizeReduce no handler other than the one that decremented
\* holds the reducer's mutex.
C26_DecrementToFinalizeAtomic ==
    \A h \in Nodes :
        (hpc[h] \in {"nmd_check", "fin", "fin_locked"} /\ waiting[h] = 0) =>
            mu[htarget[h]] \in {0, h}

\* C29: the sample of the sampled-quantile planner has max(1, ceil(N/100))
\* values, all of them values of the input.
C29_SampleSizeCeil ==
    cpc = "sampled" =>
        LET N    == Len(allValues)
            ceil == (N + SampleDivisor - 1) \div SampleDivisor
        IN  /\ Len(sampledValues) = IF ceil < 1 THEN 1 ELSE ceil
            /\ Range(sampledValues) \subseteq Range(allValues)

\* The positions at which a handler holds the mutex of its node.
Locked == {"smd_locked", "nmd_locked", "fin_locked"}

\* C27: at most one handler of a node is inside a critical section, it is
\* the holder of the node's mutex, and receivedData, mappersToWait and the
\* output change only in a step of the handler that holds the mutex.
C27_MutexGuardsAccumulator ==
    /\ [](\A r \in Nodes :
              /\ Cardinality({h \in Nodes : htarget[h] = r /\ hpc[h] \in Locked}) <= 1
              /\ \A h \in Nodes : (htarget[h] = r /\ hpc[h] \in Locked) <=> mu[r] = h)
    /\ [][\A r \in Nodes :
              (\/ receivedData'[r] # receivedData[r]
               \/ mappersToWait'[r] # mappersToWait[r]
               \/ outputFile'[r] # outputFile[r]
               \/ finalizeRuns'[r] # finalizeRuns[r]) =>
                  /\ mu[r] \in Nodes
                  /\ htarget[mu[r]] = r
                  /\ hpc[mu[r]] \in Locked
                  /\ hpc'[mu[r]] # hpc[mu[r]]]_vars

C27_Witness ==
    \E h1, h2, h3 \in Nodes :
        /\ hpc[h1] = "nmd_locked"
        /\ hpc[h2] = "smd"
        /\ hpc[h3] = "nmd"
        /\ mu[htarget[h1]] = h1
        /\ receivedData[htarget[h1]] # <<>>
        /\ htarget[h1] = htarget[h2]
        /\ htarget[h1] = htarget[h3]

\* C30: SendChunk on a node that is not a mapper returns at once, having
\* started no call and sent no value and no signal; SendMappedData and
\* NotifyMapperDone on a mapper return at once and leave the fields of
\* every node as they were.
C30_WrongRoleNoEffect ==
    /\ [][\A w \in Nodes :
              (spc[w] = "enter" /\ ~isMapper[w] /\ spc'[w] # spc[w]) =>
                  /\ spc'[w] = "returned"
                  /\ UNCHANGED <<handlerVars, roleVars, reducerVars, failures>>]_vars
    /\ [](\A w \in Nodes :
              (spc[w] = "returned" /\ ~isMapper[w]) =>
                  sentTo[w] = {} /\ notified[w] = <<>>)
    /\ [][\A h \in Nodes :
              (hpc[h] \in {"smd", "nmd"} /\ isMapper[htarget[h]] /\ hpc'[h] # hpc[h]) =>
                  /\ hpc'[h] = "returned"
                  /\ UNCHANGED <<roleVars, reducerVars, mapperVars>>]_vars

C30_Witness ==
    /\ cpc = "stray"
    /\ spc[1] = "returned"
    /\ ~isMapper[1]
    /\ values[1] # <<>>
    /\ hpc[DataSlot] = "returned"
    /\ hpc[NotifySlot] = "returned"
    /\ htarget[DataSlot] = 2
    /\ htarget[NotifySlot] = 2
    /\ isMapper[2]
    /\ receivedData[2] = <<0>>
    /\ mappersToWait[2] = totalMappers[2]

\* The values of the input that the table of this job gives to reducer r,
\* sorted ascending.
RoutedTo(r) ==
    SortAscending(SelectSeq(allValues,
        LAMBDA v : findReducer(ReducerInfos(intervals, cfgMappers), v) = r))

\* C24: when a job on workers that have run a job to the end (every
\* reducer finalized) is done and no transport failure has occurred, every
\* reducer has sorted and written once in this job, its output is the
\* sorted sequence of the values this job routes to it, and it holds no
\* accumulated value.
C24_SecondJobOnSameWorkers ==
    (prevJob = "finalized" /\ cpc = "done" /\ failures = 0) =>
        \A r \in ReducerAddrs :
            /\ finalizeRuns[r] = 1
            /\ outputFile[r] = [exists |-> TRUE, lines |-> RoutedTo(r)]
            /\ receivedData[r] = <<>>
            /\ mappersToWait[r] = 0

C24_Witness ==
    /\ prevJob = "finalized"
    /\ cpc = "done"
    /\ failures = 0
    /\ cfgReducers = 1
    /\ cfgMappers = 2
    /\ outputFile[3].lines = <<0, 0>>
    /\ outputFile[2].exists
    /\ outputFile[2].lines = <<0>>

\* C28: an AssignRole call that the master issues is acknowledged by the
\* node whatever it was before, and leaves the node with the role of the
\* request, with the request's table if it is a mapper and with a
\* countdown of the request's mapper count if it is a reducer; when the
\* assignments of a job are over every node of the job is in that state.
C28_AssignRoleOverwrites ==
    /\ [][(cpc = "assignMappers" /\ failures' = failures) =>
              /\ assigned'[ci]
              /\ isMapper'[ci]
              /\ reducers'[ci] = ReducerInfos(intervals, cfgMappers)
              /\ totalMappers'[ci] = 0]_vars
    /\ [][(cpc = "assignReducers" /\ failures' = failures) =>
              /\ assigned'[cfgMappers + ci]
              /\ ~isMapper'[cfgMappers + ci]
              /\ mappersToWait'[cfgMappers + ci] = cfgMappers
              /\ totalMappers'[cfgMappers + ci] = cfgMappers
              /\ intervalStart'[cfgMappers + ci] = intervals[ci][1]
              /\ intervalEnd'[cfgMappers + ci] = intervals[ci][2]]_vars
    /\ [](cpc = "split" =>
              /\ \A m \in MapperAddrs :
                    isMapper[m] /\ reducers[m] = ReducerInfos(intervals, cfgMappers)
              /\ \A r \in ReducerAddrs :
                    ~isMapper[r] /\ mappersToWait[r] = cfgMappers)

C28_Witness ==
    /\ prevJob = "unfinished"
    /\ cpc = "split"
    /\ cfgMappers = 2
    /\ \E r \in ReducerAddrs :
          /\ receivedData[r] # <<>>
          /\ signals[r] = 0
          /\ mappersToWait[r] = cfgMappers
    /\ \A m \in MapperAddrs : reducers[m] = ReducerInfos(intervals, cfgMappers)

\* A value an int64 variable can hold without wrapping.
Representable(x) == MinInt <= x /\ x <= MaxInt

\* The planner's integer computations on vals with R reducers all give
\* representable values: nothing wraps.
PlannerArithmeticExact(vals, R) ==
    LET lo == MinVal(vals)
        hi == MaxVal(vals)
        rs == RangeSize(vals, R)
    IN  /\ Representable(hi - lo)
        /\ Representable(hi + 1)
        /\ \A i \in 0 .. R - 1 :
              /\ Representable(i * rs)
              /\ Representable(lo + i * rs)
              /\ Representable(lo + i * rs + rs)

\* C31: in the exact-range planner max - min, min + i*rangeSize and
\* max + 1, computed over the integers, are representable for every input,
\* rangeSize is positive, and every input value lies in exactly one of the
\* planned intervals.
C31_PlannerArithmeticInRange ==
    cpc = "exact" =>
        LET In(k, x) == intervals[k][1] <= x /\ x < intervals[k][2]
        IN  /\ PlannerArithmeticExact(allValues, cfgReducers)
            /\ RangeSize(allValues, cfgReducers) > 0
            /\ \A v \in Range(allValues) :
                  Cardinality({k \in 1 .. cfgReducers : In(k, v)}) = 1

\* C32: every interval the exact-range planner produces has its start at
\* or below its end, for every reducer count R >= 1, also when R exceeds
\* max - min + 1. The inputs looked at are those on which the planner's
\* arithmetic does not wrap, the others being the matter of C31.
C32_IntervalsWellFormed ==
    (cpc = "exact" /\ PlannerArithmeticExact(allValues, cfgReducers)) =>
        \A k \in 1 .. cfgReducers : intervals[k][1] <= intervals[k][2]

\* C33: a worker that has served no AssignRole ignores shuffle traffic:
\* after SendMappedData and NotifyMapperDone calls on it its accumulated
\* values and its remaining-signal count are as they were at start-up, it
\* has not sorted or written, and its SendChunk has sent no value and no
\* signal.
C33_UnassignedIgnoresTraffic ==
    \A w \in Nodes :
        ~assigned[w] =>
            /\ receivedData[w] = <<>>
            /\ mappersToWait[w] = 0
            /\ finalizeRuns[w] = 0
            /\ ~outputFile[w].exists
            /\ ~Finalizing(w)
            /\ sentTo[w] = {} /\ notified[w] = <<>>
            /\ spc[w] \in {"idle", "enter", "returned"}

InShuffleRun(m) == spc[m] \notin {"idle", "returned"}

\* The mappers with a SendMappedData or NotifyMapperDone call on node r
\* that has not yet returned to them.
CallersInFlight(r) == {h \in Nodes : hpc[h] # "idle" /\ htarget[h] = r}

\* C35: in a job driven by the master at most one mapper is in its
\* SendChunk at any time, the master delivers a chunk only when no mapper
\* is in one, and no reducer has calls of two mappers in flight.
C35_OneMapperAtATime ==
    /\ Cardinality({m \in Nodes : InShuffleRun(m)}) <= 1
    /\ cpc = "sendChunks" => \A m \in Nodes : spc[m] = "idle"
    /\ \A m \in Nodes : InShuffleRun(m) => cpc = "awaitChunk" /\ m = ci
    /\ \A r \in Nodes : Cardinality(CallersInFlight(r)) <= 1
    /\ \A h \in Nodes : hpc[h] # "idle" => h = ci /\ spc[h] \in {"awaitData", "awaitNotify"}

C35_Witness ==
    /\ cpc = "awaitChunk"
    /\ ci = 2
    /\ cfgMappers = 2
    /\ spc[1] = "idle"
    /\ spc[2] = "awaitNotify"
    /\ hpc[2] = "fin_locked"
    /\ signals[htarget[2]] = 2

\* C36: in a job the master drives with M mappers on freshly started
\* workers (one AssignRole per node), the remaining-signal count of every
\* reducer is in 0 .. M, never negative, and is M less the completion
\* signals the reducer has processed.
C36_CountdownInRange ==
    \A r \in Nodes :
        IsReducer(r) =>
            /\ totalMappers[r] = cfgMappers
            /\ mappersToWait[r] \in 0 .. cfgMappers
            /\ signals[r] \in 0 .. cfgMappers
            /\ mappersToWait[r] = cfgMappers - signals[r]
            /\ signals[r] = Cardinality(signalsFrom[r])

C36_Witness ==
    /\ cfgMappers = 2
    /\ cfgReducers = 2
    /\ \E r1, r2 \in ReducerAddrs :
          /\ mappersToWait[r1] = 0 /\ signals[r1] = 2 /\ finalizeRuns[r1] = 1
          /\ mappersToWait[r2] = 1 /\ signals[r2] = 1
    /\ \E r \in ReducerAddrs, h \in Nodes : hpc[h] = "nmd_check" /\ htarget[h] = r

====
